---------------------------- MODULE Spec2Model ----------------------------
(***************************************************************************)
(* Two model-provider adapters:                                            *)
(*   - HuggingfaceTeiTextEmbeddingModel._invoke   (text_embedding.py)      *)
(*   - MinimaxChatCompletion.generate and its response handlers            *)
(*     (chat_completion.py)                                                *)
(* Each adapter is a sequential program; SpecEmbed runs the first and      *)
(* SpecChat the second, the other adapter's variables staying idle.        *)
(***************************************************************************)
EXTENDS Integers, Sequences, FiniteSets, TLC

VARIABLES
    \* ---- text_embedding.py, _invoke ----
    e_pc,                \* position in _invoke
    texts,               \* the argument texts
    gpt2,                \* the GPT2 tokenizer on the argument texts: text -> count
    context_size,        \* self._get_context_size(model, credentials)
    max_chunks,          \* self._get_max_chunks(model, credentials)
    inputs,              \* inputs
    used_tokens,         \* used_tokens
    idx,                 \* the loop variable i of both loops
    batched_embeddings,  \* batched_embeddings
    calls,               \* the texts of every TeiHelper.invoke_embeddings call issued
    outcomes,            \* how each call that came back ended, in order
    e_result,            \* the TextEmbeddingResult returned, or None
    e_error,             \* the exception _invoke raised, or None
    \* ---- chat_completion.py ----
    c_pc,                \* position in generate / the handlers / the generator
    api_key,
    group_id,
    arg_messages,        \* the caller's prompt_messages list
    prompt_messages,     \* the local name prompt_messages (rebound at line 57)
    stream,
    body,                \* the request body built by generate, or None
    posts,               \* how many POSTs were issued
    conn,                \* the HTTP connection of the response: none, open, released
    unread,              \* how many lines of the streaming body are not read yet
    consumed,            \* the response lines (or body) read so far, in order
    pending,             \* choices of the current record not yielded yet
    yielded,             \* the messages the caller has received, in order
    c_error              \* the exception raised to the caller, or None

evars == <<e_pc, texts, gpt2, context_size, max_chunks, inputs, used_tokens, idx,
           batched_embeddings, calls, outcomes, e_result, e_error>>
cvars == <<c_pc, api_key, group_id, arg_messages, prompt_messages, stream, body, posts, conn,
           unread, consumed, pending, yielded, c_error>>
vars == <<evars, cvars>>

None == [none |-> TRUE]
NoError == "None"

Min(a, b) == IF a <= b THEN a ELSE b

(***************************************************************************)
(* Bounds of the model.                                                    *)
(***************************************************************************)
\* longest text of a one-text call
MaxLen == 22
\* largest token estimate of a one-text call
MaxTok == 22
\* largest context size of a one-text call
MaxContext == 15
\* most texts of a multi-text call
MaxTexts == 3
\* longest text of a multi-text call
MaxListLen == 1
\* largest token estimate and context size of a multi-text call
MaxListTok == 2
\* most prompt messages
MaxMsgs == 2
\* most lines of a streaming body
MaxLines == 3

(***************************************************************************)
(* Python float arithmetic (IEEE-754 binary64, round-half-to-even) on the  *)
(* values line 80 computes.  A float is [m, e]: m its MantissaBits         *)
(* significand bits, most significant first (<<>> for 0.0), e the power of *)
(* two the last bit of m stands for.  The arithmetic goes LimbBits bits at *)
(* a time, so that every int stays below 2^31 for operands below 2^21.     *)
(***************************************************************************)
MantissaBits == 53
LimbBits == 9
\* limbs of a quotient: MantissaBits + 1 bits
QuotLimbs == 6

Bits == Seq({0, 1})
Floats == [m : Bits, e : Int]

\* the smallest k >= 0 with a * 2^k >= b
ScaleUp[a \in Nat, b \in Nat] == IF a >= b THEN 0 ELSE 1 + ScaleUp[2 * a, b]

\* the largest j >= 0 with b * 2^j <= a, for a >= b
ScaleDown[a \in Nat, b \in Nat] == IF 2 * b > a THEN 0 ELSE 1 + ScaleDown[a, 2 * b]

\* long division of r / d, for r < 2d: the next k limbs of the quotient, then twice
\* the remainder they leave
DivLimbs[r \in Nat, d \in Nat, k \in Nat] ==
    IF k = 0 THEN <<r>>
    ELSE <<(r * 2^(LimbBits - 1)) \div d>>
            \o DivLimbs[2 * ((r * 2^(LimbBits - 1)) % d), d, k - 1]

\* the bits of the limbs q, LimbBits bits each, as one bit string
LimbsToBits[q \in Seq(Nat)] ==
    [j \in 1..(LimbBits * Len(q)) |->
        (q[((j - 1) \div LimbBits) + 1] \div 2^(LimbBits - 1 - ((j - 1) % LimbBits))) % 2]

\* the limbs of the bit string b, the limb at the front taking the bits left over
BitsToLimbs[b \in Bits] ==
    IF Len(b) <= LimbBits
    THEN <<(IF Len(b) >= 1 THEN b[Len(b)] ELSE 0)
           + (IF Len(b) >= 2 THEN 2 * b[Len(b) - 1] ELSE 0)
           + (IF Len(b) >= 3 THEN 4 * b[Len(b) - 2] ELSE 0)
           + (IF Len(b) >= 4 THEN 8 * b[Len(b) - 3] ELSE 0)
           + (IF Len(b) >= 5 THEN 16 * b[Len(b) - 4] ELSE 0)
           + (IF Len(b) >= 6 THEN 32 * b[Len(b) - 5] ELSE 0)
           + (IF Len(b) >= 7 THEN 64 * b[Len(b) - 6] ELSE 0)
           + (IF Len(b) >= 8 THEN 128 * b[Len(b) - 7] ELSE 0)
           + (IF Len(b) >= 9 THEN 256 * b[Len(b) - 8] ELSE 0)>>
    ELSE BitsToLimbs[SubSeq(b, 1, Len(b) - LimbBits)]
            \o BitsToLimbs[SubSeq(b, Len(b) - LimbBits + 1, Len(b))]

\* the value of limbs (below 2^31)
LimbsToInt[q \in Seq(Nat)] ==
    IF q = <<>> THEN 0
    ELSE LimbsToInt[SubSeq(q, 1, Len(q) - 1)] * 2^LimbBits + q[Len(q)]

\* the product of the limbs q and n, from the least significant limb: the carry out
\* of the front limb (as three limbs), then the limbs
MulLimbs[q \in Seq(Nat), n \in Nat, carry \in Nat] ==
    IF q = <<>>
    THEN <<carry \div 2^(2 * LimbBits), (carry \div 2^LimbBits) % 2^LimbBits,
           carry % 2^LimbBits>>
    ELSE MulLimbs[SubSeq(q, 1, Len(q) - 1), n, (q[Len(q)] * n + carry) \div 2^LimbBits]
            \o <<(q[Len(q)] * n + carry) % 2^LimbBits>>

\* b without its leading zero bits
StripZeros[b \in Bits] ==
    IF \A j \in 1..Len(b) : b[j] = 0 THEN <<>>
    ELSE SubSeq(b, CHOOSE j \in 1..Len(b) : b[j] = 1 /\ \A k \in 1..(j - 1) : b[k] = 0,
                Len(b))

\* b + 1; one bit longer when every bit of b was 1
IncBits[b \in Bits] ==
    IF \A j \in 1..Len(b) : b[j] = 1 THEN <<1>> \o [j \in 1..Len(b) |-> 0]
    ELSE [j \in 1..Len(b) |->
            IF \E k \in (j + 1)..Len(b) : b[k] = 0 THEN b[j]
            ELSE IF b[j] = 0 THEN 1 ELSE 0]

\* the exact value b * 2^e (b without leading zeros) rounded to MantissaBits bits,
\* ties to even
RoundBits[b \in Bits, e \in Int] ==
    IF Len(b) <= MantissaBits THEN [m |-> b, e |-> e]
    ELSE IF /\ b[MantissaBits + 1] = 1
            /\ \/ b[MantissaBits] = 1
               \/ \E j \in (MantissaBits + 2)..Len(b) : b[j] = 1
    THEN IF \A j \in 1..MantissaBits : b[j] = 1
         THEN [m |-> [j \in 1..MantissaBits |-> IF j = 1 THEN 1 ELSE 0],
               e |-> e + Len(b) - MantissaBits + 1]
         ELSE [m |-> IncBits[SubSeq(b, 1, MantissaBits)], e |-> e + Len(b) - MantissaBits]
    ELSE [m |-> SubSeq(b, 1, MantissaBits), e |-> e + Len(b) - MantissaBits]

\* num / den * 2^ex for den <= num < 2 den: the quotient's limbs dl (and the
\* remainder after them, which gives a sticky bit), rounded
RoundQuotient[dl \in Seq(Nat), ex \in Int] ==
    IF dl[Len(dl)] = 0
    THEN RoundBits[LimbsToBits[SubSeq(dl, 1, Len(dl) - 1)], ex - MantissaBits]
    ELSE RoundBits[LimbsToBits[SubSeq(dl, 1, Len(dl) - 1)] \o <<1>>, ex - MantissaBits - 1]

\* a / b for ints a, b >= 1 (true division, correctly rounded)
FloatDiv[a \in Nat, b \in Nat] ==
    IF a >= b
    THEN RoundQuotient[DivLimbs[a, b * 2^ScaleDown[a, b], QuotLimbs], ScaleDown[a, b]]
    ELSE RoundQuotient[DivLimbs[a * 2^ScaleUp[a, b], b, QuotLimbs], 0 - ScaleUp[a, b]]

FloatZero == [m |-> <<>>, e |-> 0]

\* n * x for an int n >= 0 and a float x >= 0
FloatMul[n \in Nat, x \in Floats] ==
    IF n = 0 \/ x.m = <<>> THEN FloatZero
    ELSE RoundBits[StripZeros[LimbsToBits[MulLimbs[BitsToLimbs[x.m], n, 0]]], x.e]

\* int(x) for a float 0 <= x < 2^31: truncation
FloatToInt[x \in Floats] ==
    IF Len(x.m) + x.e <= 0 THEN 0
    ELSE IF x.e >= 0 THEN LimbsToInt[BitsToLimbs[x.m]] * 2^x.e
    ELSE LimbsToInt[BitsToLimbs[SubSeq(x.m, 1, Len(x.m) + x.e)]]

(***************************************************************************)
(* text_embedding.py: HuggingfaceTeiTextEmbeddingModel._invoke             *)
(***************************************************************************)

\* a text of n characters, all the character c
Text(c, n) == [k \in 1..n |-> c]

\* self._get_num_tokens_by_gpt2(text)
NumTokensByGpt2(text) == gpt2[text]

\* int(len(text) * (context_size / num_tokens))
Cutoff(n, C, E) == FloatToInt[FloatMul[n, FloatDiv[C, E]]]

\* text[0:cutoff]
Slice(text, cutoff) == SubSeq(text, 1, Min(cutoff, Len(text)))

\* the text appended to inputs for one argument text
Truncated(text, num_tokens, C) ==
    IF num_tokens >= C
    THEN Slice(text, Cutoff(Len(text), C, num_tokens))
    ELSE text

\* used_tokens += num_tokens
UsedTokensSent(used, num_tokens, C) == used + Min(num_tokens, C)
UsedTokens(used, num_tokens, C) == used + num_tokens

\* inputs[i : i + max_chunks]
IterTextsOverlap(inp, k, M) == SubSeq(inp, k + 1, Min(k + M + 1, Len(inp)))
IterTexts(inp, k, M) == SubSeq(inp, k + 1, Min(k + M, Len(inp)))

\* What TeiHelper.invoke_embeddings returns for one call (its code is in
\* models/helper.py; the shape is the one the interface description gives): one
\* object with an "embedding" per text; the text itself stands for its vector.
Results(iter_texts) ==
    [data |-> [j \in 1..Len(iter_texts) |-> [embedding |-> iter_texts[j]]]]

\* [embedding["embedding"] for embedding in results["data"]]
Embeddings(results) == [j \in 1..Len(results.data) |-> results.data[j].embedding]

\* _calc_response_usage: tokens and total_tokens (the price fields come from
\* get_price and are left out)
CalcResponseUsage(tokens) == [tokens |-> tokens, total_tokens |-> tokens]

\* The length and the estimate of a text: the byte-level tokenizer gives 0 tokens
\* for "" only and at most 4 per character.
Shapes(maxLen, maxTok) ==
    {sh \in (0..maxLen) \X (0..maxTok) :
        /\ (sh[1] = 0) = (sh[2] = 0)
        /\ sh[2] <= 4 * sh[1]}

\* The arguments of a call with the texts of the given shapes: text j is made of
\* the character j, so different positions hold different texts unless both are
\* empty.
Call(shapes, C, M) ==
    [texts |-> [j \in 1..Len(shapes) |-> Text(j, shapes[j][1])],
     gpt2 |-> [t \in {Text(j, shapes[j][1]) : j \in 1..Len(shapes)} |->
                  IF t = <<>> THEN 0 ELSE shapes[t[1]][2]],
     C |-> C,
     M |-> M]

\* the call c is being made
Called(c) ==
    /\ texts = c.texts
    /\ gpt2 = c.gpt2
    /\ context_size = c.C
    /\ max_chunks = c.M

\* the chat adapter is not running
ChatIdle ==
    /\ c_pc = "idle"
    /\ api_key = ""
    /\ group_id = ""
    /\ arg_messages = <<>>
    /\ prompt_messages = <<>>
    /\ stream = FALSE
    /\ body = None
    /\ posts = 0
    /\ conn = "none"
    /\ unread = 0
    /\ consumed = <<>>
    /\ pending = <<>>
    /\ yielded = <<>>
    /\ c_error = NoError

\* the embedding adapter is not running
EmbedIdle ==
    /\ e_pc = "idle"
    /\ texts = <<>>
    /\ gpt2 = <<>>
    /\ context_size = 1
    /\ max_chunks = 1
    /\ inputs = <<>>
    /\ used_tokens = 0
    /\ idx = 0
    /\ batched_embeddings = <<>>
    /\ calls = <<>>
    /\ outcomes = <<>>
    /\ e_result = None
    /\ e_error = NoError

\* lines 69-73
InitEmbed ==
    \* a one-text call, or a multi-text call with short texts
    /\ \/ \E sh \in Shapes(MaxLen, MaxTok), C \in 1..MaxContext :
            Called(Call(<<sh>>, C, 1))
       \/ \E n \in 0..MaxTexts :
            \E shapes \in [1..n -> Shapes(MaxListLen, MaxListTok)],
               C \in 1..MaxListTok, M \in 1..MaxTexts :
                Called(Call(shapes, C, M))
    /\ e_pc = "truncate"
    /\ inputs = <<>>
    /\ used_tokens = 0
    /\ idx = 0
    /\ batched_embeddings = <<>>
    /\ calls = <<>>
    /\ outcomes = <<>>
    /\ e_result = None
    /\ e_error = NoError
    /\ ChatIdle

\* lines 76-85: one iteration of the truncation loop
TruncateText ==
    /\ e_pc = "truncate"
    /\ idx < Len(texts)
    /\ LET text == texts[idx + 1]
           num_tokens == NumTokensByGpt2(text)
       IN  /\ inputs' = Append(inputs, Truncated(text, num_tokens, context_size))
           /\ used_tokens' = UsedTokens(used_tokens, num_tokens, context_size)
    /\ idx' = idx + 1
    /\ UNCHANGED <<e_pc, texts, gpt2, context_size, max_chunks, batched_embeddings,
                   calls, outcomes, e_result, e_error>>
    /\ UNCHANGED cvars

\* lines 87-88: the truncation loop is over
StartBatches ==
    /\ e_pc = "truncate"
    /\ idx = Len(texts)
    /\ e_pc' = "batch"
    /\ idx' = 0
    /\ batched_embeddings' = <<>>
    /\ UNCHANGED <<texts, gpt2, context_size, max_chunks, inputs, used_tokens,
                   calls, outcomes, e_result, e_error>>
    /\ UNCHANGED cvars

\* lines 90-92: the next chunk is sent
IssueCall ==
    /\ e_pc = "batch"
    /\ idx < Len(inputs)
    /\ calls' = Append(calls, IterTexts(inputs, idx, max_chunks))
    /\ e_pc' = "await"
    /\ UNCHANGED <<texts, gpt2, context_size, max_chunks, inputs, used_tokens, idx,
                   batched_embeddings, outcomes, e_result, e_error>>
    /\ UNCHANGED cvars

\* lines 92-95: the call returns the embeddings of the chunk
CallReturns ==
    /\ e_pc = "await"
    /\ LET results == Results(calls[Len(calls)])
       IN  batched_embeddings' = batched_embeddings \o Embeddings(results)
    /\ outcomes' = Append(outcomes, "ok")
    /\ idx' = idx + max_chunks
    /\ e_pc' = "batch"
    /\ UNCHANGED <<texts, gpt2, context_size, max_chunks, inputs, used_tokens,
                   calls, e_result, e_error>>
    /\ UNCHANGED cvars

\* lines 92, 96-97, returning what was embedded so far instead of raising
CallFailsPartial ==
    /\ e_pc = "await"
    /\ outcomes' = Append(outcomes, "RuntimeError")
    /\ e_pc' = "done"
    /\ e_result' = [embeddings |-> batched_embeddings,
                    usage |-> CalcResponseUsage(used_tokens)]
    /\ UNCHANGED <<texts, gpt2, context_size, max_chunks, inputs, used_tokens, idx,
                   batched_embeddings, calls, e_error>>
    /\ UNCHANGED cvars

\* lines 92, 96-97: the call raises RuntimeError, re-raised as
\* InvokeServerUnavailableError
CallFails ==
    /\ e_pc = "await"
    /\ outcomes' = Append(outcomes, "RuntimeError")
    /\ e_pc' = "raised"
    /\ e_error' = "InvokeServerUnavailableError"
    /\ UNCHANGED <<texts, gpt2, context_size, max_chunks, inputs, used_tokens, idx,
                   batched_embeddings, calls, e_result>>
    /\ UNCHANGED cvars

\* lines 98-104: every chunk is done
ReturnResult ==
    /\ e_pc = "batch"
    /\ idx >= Len(inputs)
    /\ e_result' = [embeddings |-> batched_embeddings,
                    usage |-> CalcResponseUsage(used_tokens)]
    /\ e_pc' = "done"
    /\ UNCHANGED <<texts, gpt2, context_size, max_chunks, inputs, used_tokens, idx,
                   batched_embeddings, calls, outcomes, e_error>>
    /\ UNCHANGED cvars

NextEmbed ==
    \/ TruncateText
    \/ StartBatches
    \/ IssueCall
    \/ CallReturns
    \/ CallFails
    \/ ReturnResult

(***************************************************************************)
(* chat_completion.py: MinimaxChatCompletion                               *)
(***************************************************************************)

\* MinimaxMessage.Role
Role == [SYSTEM |-> "system", USER |-> "user", ASSISTANT |-> "assistant"]

\* line 50
DefaultPrompt == "default prompt"

\* MinimaxMessage(content=..., role=...): usage and stop_reason start unset
MinimaxMessage(content, role) ==
    [role |-> role, content |-> content, usage |-> None, stop_reason |-> "None"]

\* line 60: message.to_completion_dict(), the dict the message m makes of itself
ToCompletionDict(m) == [to_completion_dict |-> m]

\* lines 50, 54-56: the prompt sent
Prompt(msgs) ==
    IF msgs # <<>> /\ msgs[1].role = Role.SYSTEM /\ msgs[1].content # ""
    THEN msgs[1].content
    ELSE DefaultPrompt

\* lines 54, 57: prompt_messages after the leading system message is dropped
StrippedKeep(msgs) == msgs
Stripped(msgs) ==
    IF msgs # <<>> /\ msgs[1].role = Role.SYSTEM THEN Tail(msgs) ELSE msgs

\* lines 60-69 (extra_kwargs, model and role_meta do not depend on the messages
\* and are left out)
Body(msgs, prompt, strm) ==
    [messages |-> [j \in 1..Len(msgs) |-> ToCompletionDict(msgs[j])],
     prompt |-> prompt,
     stream |-> strm]

\* lines 80-92: the exception _handle_error raises
HandleErrorUniform(code) == "InternalServerError"
HandleError(code) ==
    IF code \in {1000, 1001, 1013, 1027} THEN "InternalServerError"
    ELSE IF code \in {1002, 1039} THEN "RateLimitReachedError"
    ELSE IF code = 1004 THEN "InvalidAuthenticationError"
    ELSE IF code = 1008 THEN "InsufficientAccountBalanceError"
    ELSE IF code = 2013 THEN "BadRequestError"
    ELSE "InternalServerError"

\* lines 99, 123: "base_resp" in data and data["base_resp"]["status_code"] != 0
HasErrorStatus(data) ==
    "base_resp" \in DOMAIN data /\ data.base_resp.status_code # 0

\* ---- the bodies the server may send ----
StatusOk == [status_code |-> 0, status_msg |-> ""]
StatusCodes == {1000, 1001, 1013, 1027, 1002, 1039, 1004, 1008, 2013, 1003, 9999}

PartialRecords ==
    { [reply |-> "", choices |-> <<[delta |-> "Hi"]>>],
      [reply |-> "", choices |-> <<[delta |-> "a"], [delta |-> "b"]>>],
      [base_resp |-> StatusOk, reply |-> "", choices |-> <<[delta |-> "c"]>>],
      [reply |-> "", choices |-> <<>>],
      [reply |-> ""],
      [reply |-> "", choices |-> <<[delta |-> "d"], [finish_reason |-> "stop"]>>] }
\* a partial record that carries choices only, without a "reply" key
BareRecords == { [choices |-> <<[delta |-> "Hi"]>>] }
CompletionRecords ==
    { [reply |-> "Hi", usage |-> [total_tokens |-> 3],
       choices |-> <<[finish_reason |-> "stop"]>>],
      [base_resp |-> StatusOk, reply |-> "Hello", usage |-> [total_tokens |-> 7],
       choices |-> <<[finish_reason |-> "length"]>>] }
ErrorRecords ==
    { [base_resp |-> [status_code |-> c, status_msg |-> "msg"]] : c \in StatusCodes }
JsonRecords == PartialRecords \cup BareRecords \cup CompletionRecords \cup ErrorRecords

\* A line of the body is a sequence of segments: the "data: " prefix and a JSON text.
PrefixSeg == [seg |-> "data: "]
JsonSeg(r) == [seg |-> "json", value |-> r]
BlankLine == <<>>
Lines ==
    {BlankLine, <<PrefixSeg>>}
        \cup {<<PrefixSeg, JsonSeg(r)>> : r \in JsonRecords}
        \cup {<<JsonSeg(r)>> : r \in {[reply |-> "", choices |-> <<[delta |-> "Hi"]>>],
                                      [reply |-> "Hi", usage |-> [total_tokens |-> 3],
                                       choices |-> <<[finish_reason |-> "stop"]>>],
                                      [base_resp |-> [status_code |-> 1004,
                                                      status_msg |-> "msg"]]}}

\* lines 120-121: line[6:].strip() when line.startswith("data: ")
StripPrefix(line) ==
    IF line # <<>> /\ line[1].seg = "data: " THEN Tail(line) ELSE line

\* line 122: loads(line); anything but one JSON text is a JSONDecodeError
IsJson(line) == Len(line) = 1 /\ line[1].seg = "json"
Loads(line) == line[1].value

\* lines 128-131: the terminal message
TerminalMessage(data) ==
    [role |-> Role.ASSISTANT, content |-> "",
     usage |-> [prompt_tokens |-> 0,
                completion_tokens |-> data.usage.total_tokens,
                total_tokens |-> data.usage.total_tokens],
     stop_reason |-> data.choices[1].finish_reason]

\* lines 103-109: the message of a non-streaming body
ReplyMessage(data) ==
    [role |-> Role.ASSISTANT, content |-> data.reply,
     usage |-> [prompt_tokens |-> 0,
                completion_tokens |-> data.usage.total_tokens,
                total_tokens |-> data.usage.total_tokens],
     stop_reason |-> data.choices[1].finish_reason]

\* the keys lines 103-109 and 128-131 index
HasCompletionKeys(data) ==
    /\ "usage" \in DOMAIN data
    /\ "choices" \in DOMAIN data
    /\ data.choices # <<>>
    /\ "finish_reason" \in DOMAIN data.choices[1]

\* lines 117-139: what one line makes the generator do
\*   skip: go on to the next line; raise: an exception; final: the terminal
\*   message is yielded; yield: the first delta is yielded, rest stay pending
StreamStep(line) ==
    IF line = <<>> THEN [kind |-> "skip"]
    ELSE LET text == StripPrefix(line) IN
    IF ~IsJson(text) THEN [kind |-> "raise", error |-> "JSONDecodeError"]
    ELSE LET data == Loads(text) IN
    IF HasErrorStatus(data)
    THEN [kind |-> "raise", error |-> HandleError(data.base_resp.status_code)]
    ELSE IF "reply" \notin DOMAIN data THEN [kind |-> "raise", error |-> "KeyError"]
    ELSE IF data.reply # ""
    THEN IF HasCompletionKeys(data)
         THEN [kind |-> "final", message |-> TerminalMessage(data)]
         ELSE [kind |-> "raise", error |-> "KeyError"]
    ELSE LET choices == IF "choices" \in DOMAIN data THEN data.choices ELSE <<>> IN
    IF choices = <<>> THEN [kind |-> "skip"]
    ELSE IF "delta" \notin DOMAIN choices[1] THEN [kind |-> "raise", error |-> "KeyError"]
    ELSE [kind |-> "yield",
          message |-> MinimaxMessage(choices[1].delta, Role.ASSISTANT),
          rest |-> Tail(choices)]

\* lines 98-110: what the non-streaming body makes the handler do
ResponseStep(data) ==
    IF HasErrorStatus(data)
    THEN [kind |-> "raise", error |-> HandleError(data.base_resp.status_code)]
    ELSE IF "reply" \notin DOMAIN data \/ ~HasCompletionKeys(data)
    THEN [kind |-> "raise", error |-> "KeyError"]
    ELSE [kind |-> "final", message |-> ReplyMessage(data)]

MsgKinds == {[role |-> r, content |-> c] :
                r \in {Role.SYSTEM, Role.USER, Role.ASSISTANT}, c \in {"", "X"}}

RECURSIVE SeqsUpTo(_, _)
SeqsUpTo(S, n) ==
    IF n = 0 THEN {<<>>}
    ELSE LET shorter == SeqsUpTo(S, n - 1)
         IN  shorter \cup {Append(s, x) : s \in shorter, x \in S}

\* generate is called
InitChat ==
    /\ c_pc = "start"
    /\ api_key \in {"", "key"}
    /\ group_id \in {"", "gid"}
    /\ arg_messages \in SeqsUpTo(MsgKinds, MaxMsgs)
    /\ prompt_messages = arg_messages
    /\ stream \in BOOLEAN
    /\ body = None
    /\ posts = 0
    /\ conn = "none"
    /\ unread = 0
    /\ consumed = <<>>
    /\ pending = <<>>
    /\ yielded = <<>>
    /\ c_error = NoError
    /\ EmbedIdle

\* generate raises: nothing else changes
Raise(error) ==
    /\ c_pc' = "failed"
    /\ c_error' = error

\* lines 37-38
CheckCredentialsSkipped ==
    /\ c_pc = "start"
    /\ c_pc' = "build"
    /\ UNCHANGED <<api_key, group_id, arg_messages, prompt_messages, stream, body,
                   posts, conn, unread, consumed, pending, yielded, c_error>>
    /\ UNCHANGED evars
CheckCredentials ==
    /\ c_pc = "start"
    /\ IF api_key = "" \/ group_id = ""
       THEN Raise("InvalidAPIKeyError")
       ELSE c_pc' = "build" /\ UNCHANGED c_error
    /\ UNCHANGED <<api_key, group_id, arg_messages, prompt_messages, stream, body,
                   posts, conn, unread, consumed, pending, yielded>>
    /\ UNCHANGED evars

\* lines 50-69
BuildRequest ==
    /\ c_pc = "build"
    /\ IF prompt_messages = <<>>
       THEN Raise("BadRequestError") /\ UNCHANGED <<prompt_messages, body>>
       ELSE LET prompt == Prompt(prompt_messages)
                rest == Stripped(prompt_messages)
            IN  /\ prompt_messages' = rest
                /\ IF rest = <<>>
                   THEN Raise("BadRequestError") /\ UNCHANGED body
                   ELSE /\ body' = Body(rest, prompt, stream)
                        /\ c_pc' = "post"
                        /\ UNCHANGED c_error
    /\ UNCHANGED <<api_key, group_id, arg_messages, stream, posts, conn, unread,
                   consumed, pending, yielded>>
    /\ UNCHANGED evars

\* lines 70-73: post raises (no response, no connection)
PostRaises ==
    /\ c_pc = "post"
    /\ posts' = posts + 1
    /\ Raise("InternalServerError")
    /\ UNCHANGED <<api_key, group_id, arg_messages, prompt_messages, stream, body,
                   conn, unread, consumed, pending, yielded>>
    /\ UNCHANGED evars

\* lines 71, 74-75: a status other than 200; response.text reads the whole body,
\* which gives the connection back
PostRefused ==
    /\ c_pc = "post"
    /\ posts' = posts + 1
    /\ conn' = "released"
    /\ Raise("InternalServerError")
    /\ UNCHANGED <<api_key, group_id, arg_messages, prompt_messages, stream, body,
                   unread, consumed, pending, yielded>>
    /\ UNCHANGED evars

\* lines 71, 74: status 200.  With stream=True the body stays on the open
\* connection; without, requests has read it and given the connection back.
PostOk ==
    /\ c_pc = "post"
    /\ posts' = posts + 1
    /\ c_pc' = "dispatch"
    /\ IF stream
       THEN conn' = "open" /\ unread' \in 0..MaxLines
       ELSE conn' = "released" /\ unread' = 0
    /\ UNCHANGED <<api_key, group_id, arg_messages, prompt_messages, stream, body,
                   consumed, pending, yielded, c_error>>
    /\ UNCHANGED evars

\* lines 76-78: the handler gets the response only; with stream=True generate
\* returns the generator, not yet started.  generate's own locals are gone.
Dispatch ==
    /\ c_pc = "dispatch"
    /\ c_pc' = IF stream THEN "suspended" ELSE "respond"
    /\ api_key' = ""
    /\ group_id' = ""
    /\ arg_messages' = <<>>
    /\ prompt_messages' = <<>>
    /\ body' = None
    /\ UNCHANGED <<stream, posts, conn, unread, consumed, pending, yielded, c_error>>
    /\ UNCHANGED evars

\* lines 94-110: _handle_chat_generate_response on the body the server sent
HandleResponse ==
    /\ c_pc = "respond"
    /\ \E data \in JsonRecords :
        LET step == ResponseStep(data) IN
        /\ consumed' = <<<<JsonSeg(data)>>>>
        /\ IF step.kind = "raise"
           THEN c_pc' = "raised" /\ c_error' = step.error /\ UNCHANGED yielded
           ELSE c_pc' = "returned" /\ yielded' = <<step.message>> /\ UNCHANGED c_error
    /\ UNCHANGED <<api_key, group_id, arg_messages, prompt_messages, stream, body,
                   posts, conn, unread, pending>>
    /\ UNCHANGED evars

\* the caller asks the generator for the next message; a delta of the current
\* record that is still pending is yielded (lines 137-139)
Resume ==
    /\ c_pc = "suspended"
    /\ IF pending # <<>>
       THEN IF "delta" \in DOMAIN pending[1]
            THEN /\ yielded' = Append(yielded,
                                      MinimaxMessage(pending[1].delta, Role.ASSISTANT))
                 /\ pending' = Tail(pending)
                 /\ UNCHANGED <<c_pc, c_error>>
            ELSE /\ c_pc' = "raised"
                 /\ c_error' = "KeyError"
                 /\ UNCHANGED <<yielded, pending>>
       ELSE c_pc' = "reading" /\ UNCHANGED <<yielded, pending, c_error>>
    /\ UNCHANGED <<api_key, group_id, arg_messages, prompt_messages, stream, body,
                   posts, conn, unread, consumed>>
    /\ UNCHANGED evars

\* lines 116-139 with the error record treated like any other record's line
ReadLineOn ==
    /\ c_pc = "reading"
    /\ unread > 0
    /\ \E line \in Lines :
        LET step == StreamStep(line) IN
        /\ unread' = unread - 1
        /\ consumed' = Append(consumed, line)
        /\ CASE step.kind = "skip" ->
                UNCHANGED <<c_pc, yielded, pending, c_error>>
             [] step.kind = "raise" ->
                /\ UNCHANGED <<c_pc, pending, c_error>>
                /\ yielded' = Append(yielded, MinimaxMessage("", Role.ASSISTANT))
             [] step.kind = "final" ->
                /\ c_pc' = "final"
                /\ yielded' = Append(yielded, step.message)
                /\ UNCHANGED <<pending, c_error>>
             [] step.kind = "yield" ->
                /\ c_pc' = "suspended"
                /\ yielded' = Append(yielded, step.message)
                /\ pending' = step.rest
                /\ UNCHANGED c_error
    /\ UNCHANGED <<api_key, group_id, arg_messages, prompt_messages, stream, body,
                   posts, conn>>
    /\ UNCHANGED evars

\* lines 116-139: iter_lines hands out the next line of the body
ReadLine ==
    /\ c_pc = "reading"
    /\ unread > 0
    /\ \E line \in Lines :
        LET step == StreamStep(line) IN
        /\ unread' = unread - 1
        /\ consumed' = Append(consumed, line)
        /\ CASE step.kind = "skip" ->
                UNCHANGED <<c_pc, yielded, pending, c_error>>
             [] step.kind = "raise" ->
                /\ c_pc' = "raised"
                /\ c_error' = step.error
                /\ UNCHANGED <<yielded, pending>>
             [] step.kind = "final" ->
                /\ c_pc' = "final"
                /\ yielded' = Append(yielded, step.message)
                /\ UNCHANGED <<pending, c_error>>
             [] step.kind = "yield" ->
                /\ c_pc' = "suspended"
                /\ yielded' = Append(yielded, step.message)
                /\ pending' = step.rest
                /\ UNCHANGED c_error
    /\ UNCHANGED <<api_key, group_id, arg_messages, prompt_messages, stream, body,
                   posts, conn>>
    /\ UNCHANGED evars

\* line 116: the body is exhausted, the for loop and the generator end; reading
\* the body to its end gives the connection back
EndOfBody ==
    /\ c_pc = "reading"
    /\ unread = 0
    /\ c_pc' = "done"
    /\ conn' = "released"
    /\ UNCHANGED <<api_key, group_id, arg_messages, prompt_messages, stream, body,
                   posts, unread, consumed, pending, yielded, c_error>>
    /\ UNCHANGED evars

\* line 133: resumed after the terminal message, the generator returns
ReturnAfterFinal ==
    /\ c_pc = "final"
    /\ c_pc' = "done"
    /\ UNCHANGED <<api_key, group_id, arg_messages, prompt_messages, stream, body,
                   posts, conn, unread, consumed, pending, yielded, c_error>>
    /\ UNCHANGED evars

\* the caller stops reading: the generator, suspended at a yield or not yet
\* started, is dropped.  Nothing in generate or the handler closes the response.
Abandon ==
    /\ c_pc \in {"suspended", "final"}
    /\ c_pc' = "abandoned"
    /\ UNCHANGED <<api_key, group_id, arg_messages, prompt_messages, stream, body,
                   posts, conn, unread, consumed, pending, yielded, c_error>>
    /\ UNCHANGED evars

NextChat ==
    \/ CheckCredentials
    \/ BuildRequest
    \/ PostRaises
    \/ PostRefused
    \/ PostOk
    \/ Dispatch
    \/ HandleResponse
    \/ Resume
    \/ ReadLine
    \/ EndOfBody
    \/ ReturnAfterFinal
    \/ Abandon

SpecEmbed == InitEmbed /\ [][NextEmbed]_vars
SpecChat == InitChat /\ [][NextChat]_vars

(***************************************************************************)
(* Properties of _invoke                                                   *)
(***************************************************************************)

\* the sequences of ss, one after the other
RECURSIVE Flatten(_)
Flatten(ss) == IF ss = <<>> THEN <<>> ELSE Head(ss) \o Flatten(Tail(ss))

RECURSIVE SumSeq(_)
SumSeq(s) == IF s = <<>> THEN 0 ELSE Head(s) + SumSeq(Tail(s))

IsPrefix(p, s) == Len(p) <= Len(s) /\ p = SubSeq(s, 1, Len(p))

\* the estimated token counts of the argument texts, in order
Estimates == [j \in 1..Len(texts) |-> NumTokensByGpt2(texts[j])]

\* C1: the calls are issued one at a time: a call is issued only when every earlier
\* one has come back; each carries between 1 and max_chunks texts; the texts of the
\* calls so far, concatenated in the order issued, are the front of the (possibly
\* truncated) input texts; when _invoke returns, ceil(N/M) calls were issued and
\* their texts are all the N (possibly truncated) input texts in the original
\* order; for N = 0 no call was issued and the embedding list is empty.
C1_Chunking ==
    /\ IsPrefix(Flatten(calls), inputs)
    /\ \A k \in 1..Len(calls) : Len(calls[k]) >= 1 /\ Len(calls[k]) <= max_chunks
    /\ Len(outcomes) <= Len(calls)
    /\ Len(calls) <= Len(outcomes) + 1
    /\ (Len(calls) = Len(outcomes) + 1) <=> (e_pc = "await")
    /\ e_pc = "done" =>
        /\ Len(calls) = (Len(texts) + max_chunks - 1) \div max_chunks
        /\ Flatten(calls) = inputs
        /\ Len(inputs) = Len(texts)
        /\ \A j \in 1..Len(texts) : IsPrefix(inputs[j], texts[j])
        /\ texts = <<>> => calls = <<>> /\ e_result.embeddings = <<>>

\* three texts, one of them truncated, went out in two calls: two texts, then one
C1_ThreeTextsTwoCalls ==
    /\ e_pc = "done"
    /\ Len(texts) = 3
    /\ max_chunks = 2
    /\ Len(calls) = 2
    /\ Len(calls[2]) = 1
    /\ \E j \in 1..3 : inputs[j] # texts[j]

\* C4: once a call has failed, it is the last call issued, _invoke has raised
\* InvokeServerUnavailableError, and there is no TextEmbeddingResult (so no usage
\* either), whatever was embedded before.
C4_FailFast ==
    /\ \A k \in 1..Len(outcomes) :
        outcomes[k] = "RuntimeError" =>
            /\ k = Len(outcomes)
            /\ Len(calls) = k
            /\ e_pc = "raised"
            /\ e_error = "InvokeServerUnavailableError"
            /\ e_result = None
    /\ e_pc = "raised" => e_result = None
    /\ e_result # None => e_error = NoError

\* a call failed after earlier chunks were embedded and with chunks still to send
C4_FailedMidway ==
    /\ e_pc = "raised"
    /\ outcomes[Len(outcomes)] = "RuntimeError"
    /\ batched_embeddings # <<>>
    /\ idx + max_chunks < Len(inputs)

\* C8 as stated: every text with E >= C is sent as its prefix of length exactly
\* floor(L * C / E), every text with E < C is sent unmodified.
C8_FloorLength ==
    \A j \in 1..Len(inputs) :
        LET L == Len(texts[j])
            E == NumTokensByGpt2(texts[j])
        IN  IF E >= context_size
            THEN inputs[j] = SubSeq(texts[j], 1, (L * context_size) \div E)
            ELSE inputs[j] = texts[j]

\* C8, what the code does: a text with E < C is sent unmodified; a text with
\* E >= C is sent as a prefix whose length is floor(L * C / E) or, only when E
\* divides L * C, one less.
C8_FloatLength ==
    \A j \in 1..Len(inputs) :
        LET L == Len(texts[j])
            E == NumTokensByGpt2(texts[j])
        IN  IF E >= context_size
            THEN /\ IsPrefix(inputs[j], texts[j])
                 /\ \/ Len(inputs[j]) = (L * context_size) \div E
                    \/ /\ Len(inputs[j]) = ((L * context_size) \div E) - 1
                       /\ (L * context_size) % E = 0
            ELSE inputs[j] = texts[j]

\* a text was cut one character shorter than floor(L * C / E)
C8_OneShort ==
    \E j \in 1..Len(inputs) :
        /\ NumTokensByGpt2(texts[j]) >= context_size
        /\ Len(inputs[j]) + 1 = (Len(texts[j]) * context_size) \div NumTokensByGpt2(texts[j])

\* C9: when _invoke has returned, the usage's tokens and total_tokens are both the
\* sum of the estimates of the argument texts as given (before truncation), zero for
\* the empty list; the chunk size and the number of calls play no part.
C9_Usage ==
    e_pc = "done" =>
        /\ e_result.usage.tokens = SumSeq(Estimates)
        /\ e_result.usage.total_tokens = SumSeq(Estimates)
        /\ texts = <<>> => e_result.usage.tokens = 0

\* two texts, both truncated, one call each, and the usage counts what was
\* estimated, which is more than was sent
C9_TruncatedCounted ==
    /\ e_pc = "done"
    /\ Len(texts) = 2
    /\ Len(calls) = 2
    /\ \A j \in 1..2 : inputs[j] # texts[j] /\ NumTokensByGpt2(texts[j]) > context_size
    /\ e_result.usage.tokens > 2 * context_size

(***************************************************************************)
(* Properties of generate and the response handlers                        *)
(***************************************************************************)

\* generate has not returned: its arguments and locals are those of the call
InGenerate == c_pc \in {"start", "build", "post", "dispatch", "failed"}

\* the message list is empty, or empty once a leading system message is stripped
NoMessages ==
    \/ arg_messages = <<>>
    \/ Len(arg_messages) = 1 /\ arg_messages[1].role = Role.SYSTEM

NoCredentials == api_key = "" \/ group_id = ""

\* message j of the caller's list as the body carries it
Sent(j) == [to_completion_dict |-> arg_messages[j]]

\* the record a line of the body carries, if it carries one
CarriesRecord(line) == IsJson(StripPrefix(line))
RecordOf(line) == Loads(StripPrefix(line))

IsErrorRecord(r) == "base_resp" \in DOMAIN r /\ r.base_resp.status_code # 0
IsCompletionRecord(r) ==
    ~IsErrorRecord(r) /\ "reply" \in DOMAIN r /\ r.reply # "" /\ "usage" \in DOMAIN r
\* a partial record of the shape {choices: [{delta: string}, ...]}
IsPartialRecord(r) ==
    /\ ~IsErrorRecord(r)
    /\ "usage" \notin DOMAIN r
    /\ "reply" \in DOMAIN r => r.reply = ""
    /\ "choices" \in DOMAIN r
    /\ \A j \in 1..Len(r.choices) : "delta" \in DOMAIN r.choices[j]

PartialMessage(delta) ==
    [role |-> "assistant", content |-> delta, usage |-> None, stop_reason |-> "None"]

\* the messages a partial or completion record stands for
MessagesOf(line) ==
    IF ~CarriesRecord(line) THEN <<>>
    ELSE LET r == RecordOf(line) IN
         IF IsCompletionRecord(r)
         THEN <<[role |-> "assistant", content |-> "",
                 usage |-> [prompt_tokens |-> 0,
                            completion_tokens |-> r.usage.total_tokens,
                            total_tokens |-> r.usage.total_tokens],
                 stop_reason |-> r.choices[1].finish_reason]>>
         ELSE IF IsPartialRecord(r)
         THEN [j \in 1..Len(r.choices) |-> PartialMessage(r.choices[j].delta)]
         ELSE <<>>

RECURSIVE ExpectedMessages(_)
ExpectedMessages(lines) ==
    IF lines = <<>> THEN <<>>
    ELSE MessagesOf(Head(lines)) \o ExpectedMessages(Tail(lines))

\* yielded, followed by the deltas of the current record that are still to come
Delivered == yielded \o [j \in 1..Len(pending) |-> PartialMessage(pending[j].delta)]

\* the body read so far: "data: " lines of partial records, then possibly one
\* completion record
PartialsThenCompletion(lines, withReply) ==
    /\ lines # <<>>
    /\ \A k \in 1..Len(lines) :
        /\ Len(lines[k]) = 2
        /\ CarriesRecord(lines[k])
        /\ \/ /\ IsPartialRecord(RecordOf(lines[k]))
              /\ withReply => "reply" \in DOMAIN RecordOf(lines[k])
           \/ k = Len(lines) /\ IsCompletionRecord(RecordOf(lines[k]))

\* what C2 says of the stream read so far
YieldsInOrder ==
    /\ c_pc # "raised"
    /\ Delivered = ExpectedMessages(consumed)
    /\ IsCompletionRecord(RecordOf(consumed[Len(consumed)])) =>
        /\ c_pc \in {"final", "done", "abandoned"}
        /\ pending = <<>>
        /\ yielded[Len(yielded)].usage.total_tokens =
               RecordOf(consumed[Len(consumed)]).usage.total_tokens
        /\ yielded[Len(yielded)].stop_reason =
               RecordOf(consumed[Len(consumed)]).choices[1].finish_reason

\* C2 as stated: for a streaming body of partial records of the shape
\* {choices: [{delta}, ...]} followed by a completion record, one partial message
\* per delta is yielded in line and entry order, then one terminal message with
\* total_tokens and the stop reason, and nothing is read or yielded afterwards.
C2_StreamYields ==
    (stream /\ PartialsThenCompletion(consumed, FALSE)) => YieldsInOrder

\* C2, what the code does: the same holds when every partial record also carries
\* a "reply" key (with the empty string); a partial record without that key makes
\* the decoder raise KeyError.
C2_ReplyKeyNeeded ==
    /\ (stream /\ PartialsThenCompletion(consumed, TRUE)) => YieldsInOrder
    /\ (/\ stream
        /\ PartialsThenCompletion(consumed, FALSE)
        /\ "reply" \notin DOMAIN RecordOf(consumed[Len(consumed)])) =>
            c_pc = "raised" /\ c_error = "KeyError"

\* the first line is data: {"choices": [{"delta": "Hi"}]}: KeyError, nothing yielded
C2_BareRecordRaises ==
    /\ stream
    /\ consumed = <<<<PrefixSeg, JsonSeg([choices |-> <<[delta |-> "Hi"]>>])>>>>
    /\ c_pc = "raised"
    /\ c_error = "KeyError"
    /\ yielded = <<>>
    /\ unread > 0

\* C3: when the streaming decoder reads a record with a non-zero status code, that
\* step raises the error _handle_error maps the code to (InvalidAuthenticationError
\* for 1004) and yields nothing; once raised, nothing more is yielded or read.
C3_ErrorTerminates ==
    [][/\ (/\ c_pc = "reading"
           /\ Len(consumed') = Len(consumed) + 1
           /\ CarriesRecord(consumed'[Len(consumed')])
           /\ IsErrorRecord(RecordOf(consumed'[Len(consumed')]))) =>
              /\ c_pc' = "raised"
              /\ c_error' =
                    HandleError(RecordOf(consumed'[Len(consumed')]).base_resp.status_code)
              /\ RecordOf(consumed'[Len(consumed')]).base_resp.status_code = 1004 =>
                    c_error' = "InvalidAuthenticationError"
              /\ yielded' = yielded
       /\ c_pc = "raised" => UNCHANGED <<c_pc, yielded, consumed, unread, pending>>
      ]_vars

\* a 1004 record came after a message was yielded and with lines still unread
C3_Raised1004 ==
    /\ stream
    /\ c_pc = "raised"
    /\ c_error = "InvalidAuthenticationError"
    /\ RecordOf(consumed[Len(consumed)]).base_resp.status_code = 1004
    /\ yielded # <<>>
    /\ unread > 0

\* C5 as stated: an empty message list, or one that is empty once a leading system
\* message is stripped, makes generate raise BadRequestError without a POST; a POST
\* comes only after the three checks passed; at most one POST.
C5_EmptyIsBadRequest ==
    /\ posts <= 1
    /\ InGenerate /\ NoMessages =>
        /\ posts = 0
        /\ c_pc \in {"start", "build", "failed"}
        /\ c_pc = "failed" => c_error = "BadRequestError"
    /\ InGenerate /\ (posts = 1 \/ c_pc \in {"post", "dispatch"}) =>
        ~NoCredentials /\ ~NoMessages

\* C5, amended: with both credentials non-empty, an empty message list (or one
\* empty once a leading system message is stripped) makes generate raise
\* BadRequestError without a POST; with an empty credential generate raises
\* InvalidAPIKeyError without a POST, whatever the messages; a POST comes only
\* after the three checks passed; at most one POST.
C5_ChecksBeforePost ==
    /\ posts <= 1
    /\ InGenerate /\ NoCredentials =>
        /\ posts = 0
        /\ c_pc \in {"start", "failed"}
        /\ c_pc = "failed" => c_error = "InvalidAPIKeyError"
    /\ InGenerate /\ ~NoCredentials /\ NoMessages =>
        /\ posts = 0
        /\ c_pc \in {"start", "build", "failed"}
        /\ c_pc = "failed" => c_error = "BadRequestError"
    /\ InGenerate /\ (posts = 1 \/ c_pc \in {"post", "dispatch"}) =>
        ~NoCredentials /\ ~NoMessages

\* a lone system message, good credentials: BadRequestError and no POST
C5_LoneSystemMessage ==
    /\ c_pc = "failed"
    /\ c_error = "BadRequestError"
    /\ ~NoCredentials
    /\ Len(arg_messages) = 1
    /\ posts = 0

\* C6 as stated: a first message of role system and content X gives prompt = X and
\* the remaining messages, in order, as the messages array; any other first
\* message gives the default prompt and every message in order.
C6_SystemContentIsPrompt ==
    body # None =>
        IF arg_messages[1].role = Role.SYSTEM
        THEN /\ body.prompt = arg_messages[1].content
             /\ body.messages = [j \in 1..(Len(arg_messages) - 1) |-> Sent(j + 1)]
        ELSE /\ body.prompt = DefaultPrompt
             /\ body.messages = [j \in 1..Len(arg_messages) |-> Sent(j)]

\* C6, amended: a first message of role system gives its content as the prompt
\* when that content is non-empty and the default prompt when it is empty, and in
\* both cases the remaining messages, in order, as the messages array; any other
\* first message gives the default prompt and every message in order.
C6_PromptAndMessages ==
    body # None =>
        IF arg_messages[1].role = Role.SYSTEM
        THEN /\ body.prompt = IF arg_messages[1].content # ""
                              THEN arg_messages[1].content
                              ELSE DefaultPrompt
             /\ body.messages = [j \in 1..(Len(arg_messages) - 1) |-> Sent(j + 1)]
        ELSE /\ body.prompt = DefaultPrompt
             /\ body.messages = [j \in 1..Len(arg_messages) |-> Sent(j)]

\* system message "X", then one more message: prompt "X", one message sent
C6_SystemThenOne ==
    /\ body # None
    /\ Len(arg_messages) = 2
    /\ arg_messages[1] = [role |-> "system", content |-> "X"]
    /\ body.prompt = "X"
    /\ Len(body.messages) = 1

\* codes outside the table
OtherCodes == {1003, 9999, 999, 1005, 1014, 1026, 1028, 1038, 1040, 2012, 2014, 1, -1}

\* C7: _handle_error gives each code exactly the error of the table and
\* InternalServerError for any other code; and whenever either handler has taken
\* in a record with a non-zero status code it has raised that error, the
\* non-streaming handler having returned no message and the streaming one having
\* yielded only the messages of the earlier lines.
C7_ErrorMapping ==
    /\ \A c \in {1000, 1001, 1013, 1027} : HandleError(c) = "InternalServerError"
    /\ \A c \in {1002, 1039} : HandleError(c) = "RateLimitReachedError"
    /\ HandleError(1004) = "InvalidAuthenticationError"
    /\ HandleError(1008) = "InsufficientAccountBalanceError"
    /\ HandleError(2013) = "BadRequestError"
    /\ \A c \in OtherCodes : HandleError(c) = "InternalServerError"
    /\ (/\ consumed # <<>>
        /\ CarriesRecord(consumed[Len(consumed)])
        /\ IsErrorRecord(RecordOf(consumed[Len(consumed)]))) =>
            LET code == RecordOf(consumed[Len(consumed)]).base_resp.status_code IN
            /\ c_pc = "raised"
            /\ c_error = CASE code \in {1002, 1039} -> "RateLimitReachedError"
                           [] code = 1004 -> "InvalidAuthenticationError"
                           [] code = 1008 -> "InsufficientAccountBalanceError"
                           [] code = 2013 -> "BadRequestError"
                           [] OTHER -> "InternalServerError"
            /\ yielded = ExpectedMessages(SubSeq(consumed, 1, Len(consumed) - 1))

\* the non-streaming handler got a body with status code 1002 and raised
C7_NonStreamingRateLimit ==
    /\ ~stream
    /\ c_pc = "raised"
    /\ c_error = "RateLimitReachedError"
    /\ RecordOf(consumed[1]).base_resp.status_code = 1002
    /\ yielded = <<>>

\* the message sequence of a streaming call is over
SequenceOver == stream /\ c_pc \in {"done", "raised", "abandoned"}

\* C10 as stated: however the message sequence of a streaming call ends, the
\* connection is not left open.
C10_Released == SequenceOver => conn # "open"

\* C10, what the code does: the connection is given back only by reading the body
\* to its end; a sequence that was abandoned, or ended by an exception, or ended by
\* the completion record, leaves it open.
C10_OnlyExhaustionReleases ==
    SequenceOver =>
        /\ conn = "released" => (c_pc = "done" /\ unread = 0)
        /\ c_pc \in {"raised", "abandoned"} => conn = "open"
        /\ (/\ c_pc = "done"
            /\ consumed # <<>>
            /\ CarriesRecord(consumed[Len(consumed)])
            /\ IsCompletionRecord(RecordOf(consumed[Len(consumed)]))) => conn = "open"

\* the consumer took one partial message and stopped: the connection stays open
C10_AbandonedOpen ==
    /\ stream
    /\ c_pc = "abandoned"
    /\ Len(yielded) = 1
    /\ yielded[1].stop_reason = "None"
    /\ unread > 0
    /\ conn = "open"
=============================================================================
